---- MODULE Spec2Model ----
(***************************************************************************)
(* Routing and two-tier memory of the multi-agent math-learning system.    *)
(*                                                                         *)
(*   Router      src/Agent/tools/semantic_router.py, llm_router.py         *)
(*   Short-term  src/Memory/short_term.py                                  *)
(*   Long-term   src/Memory/long_term.py, src/Memory/qdrant_store.py       *)
(*   Dispatch    src/Agent/master_agent.py                                 *)
(*                                                                         *)
(* Real numbers are kept as integers: router scores in units of 1/Unit     *)
(* (final scores in units of 1/(10*Unit)), similarities in hundredths,     *)
(* importances in tenths.  Keyword strings are written without diacritics. *)
(***************************************************************************)
EXTENDS Integers, Sequences, FiniteSets, TLC

VARIABLES prompt, \* the request text, as the set of profile keywords it contains
    model_loaded,    \* SemanticRouter.model is not None
    groq_available,  \* module-level groq_client is not None
    decision,        \* outcome of the last route() call
    messages,        \* ShortTermMemory.messages, a deque(maxlen=max_size), oldest first
    max_size,        \* ShortTermMemory.max_size
    now,             \* the clock read by time.time()
    appended,        \* history: the messages appended since the deque was last empty
    imported,        \* history: whether import_messages ran since the last clear()
    points,          \* the Qdrant collection of the store: its points, in insertion order
    next_id,         \* the next fresh point id (uuid4)
    embedding_loaded,\* EmbeddingService.model is not None
    ltm_last,        \* the last call on the long-term memory and what it returned
    requests,        \* the requests dispatched by route_to_agent, by request number
    stores,          \* the QdrantVectorStore objects constructed and what their clients hold
    got,             \* the last get_messages call and what it returned
    profile_embeddings, \* history: SemanticRouter objects constructed, and how often
                     \* the embedding of each agent profile has been computed
    state            \* the MasterAgentState passed along the master graph, and the
                     \* node that runs next

routerVars == <<prompt, model_loaded, groq_available, decision, profile_embeddings, state>>
stmVars == <<messages, max_size, appended, imported, got>>
ltmVars == <<points, next_id, embedding_loaded, ltm_last, stores>>
vars == <<routerVars, stmVars, ltmVars, now, requests>>

\* the most SemanticRouter objects constructed in a run
MaxRouters == 2

\* no SemanticRouter constructed yet
NoProfileEmbeddings == [routers |-> 0, computed |-> 0]

\* MasterAgentState(user_prompt=...) as constructed: agent_type None, confidence 0.0,
\* empty result; pc names the node of the master graph that runs next
MasterAgentState ==
    [pc |-> "analyze_prompt", agent_type |-> "None", reasoning |-> << >>,
     confidence |-> 0, fallback |-> FALSE,
     result |-> [kind |-> "none", tag |-> "", body |-> "", by |-> ""]]

\* a RoutingDecision not yet made
NoDecision ==
    [router |-> "none", status |-> "none", agent_type |-> "", confidence |-> 0,
     confidence_is_number |-> TRUE, reasoning |-> << >>, failure |-> "none",
     scores |-> << >>]

\* no request routed yet
RouterIdle ==
    /\ prompt = {}
    /\ model_loaded = FALSE
    /\ profile_embeddings = NoProfileEmbeddings
    /\ state = MasterAgentState
    /\ groq_available = FALSE
    /\ decision = NoDecision

\* no call made yet on the long-term memory
NoCall ==
    [op |-> "none", status |-> "none", content |-> "", memory_type |-> "",
     importance |-> 0, max_results |-> 0, threshold |-> 0, follows_store |-> FALSE,
     id |-> 0, value |-> "none", results |-> << >>, store_ok |-> TRUE]

\* no QdrantVectorStore constructed besides the one of the manager
NoStores == [instances |-> << >>, database |-> {}]

\* a fresh LongTermMemoryManager over a fresh QdrantVectorStore (empty collection)
LTMConstructed(loaded) ==
    /\ stores = NoStores
    /\ points = << >>
    /\ next_id = 1
    /\ embedding_loaded = loaded
    /\ ltm_last = NoCall

\* a request not yet dispatched
NoResult == [kind |-> "none", tag |-> "", body |-> "", by |-> ""]

NoRequest ==
    [pc |-> "idle", agent_type |-> "", text |-> "", raised |-> "none", answer |-> "",
     store |-> "none", result |-> NoResult, session |-> "", context |-> << >>,
     user_message |-> 0, assistant_message |-> 0]

\* a fresh ShortTermMemory(max_size)
\* no get_messages call made yet
NoRead ==
    [called |-> FALSE, limit_given |-> FALSE, limit |-> 0, role_filter |-> "",
     held |-> << >>, result |-> << >>]

STMConstructed(n) ==
    /\ got = NoRead
    /\ messages = << >>
    /\ max_size = n
    /\ appended = << >>
    /\ imported = FALSE

(***************************************************************************)
(* Agent Profile Registry                                                  *)
(***************************************************************************)

\* registry iteration order of the agent_profiles / agents dicts
Agents == <<"math", "research", "ocr", "general">>

AgentNames == {Agents[i] : i \in 1..Len(Agents)}

Keywords(agent_name) ==
    CASE agent_name = "math" ->
           <<"giai", "phuong trinh", "toan", "tinh", "tinh toan", "x^", "=", "cong thuc",
             "dai so", "hinh hoc", "giai tich", "thong ke", "xac suat", "ma tran",
             "dao ham", "tich phan", "logarit", "sin", "cos", "tan", "can bac",
             "bat phuong trinh", "he phuong trinh", "do thi", "ham so">>
      [] agent_name = "research" ->
           <<"nghien cuu", "tim hieu", "thong tin", "tin tuc", "news", "tim kiem",
             "phan tich", "bao cao", "bao chi", "cap nhat", "moi nhat", "xu huong",
             "thi truong", "kinh te", "chinh tri", "cong nghe", "khoa hoc", "y te",
             "giao duc", "moi truong", "nang luong", "tai chinh", "dau tu">>
      [] agent_name = "ocr" ->
           <<"ocr", "anh", "hinh", "image", "scan", "nhan dang", "van ban", "tai lieu",
             "pdf", "jpg", "png", "bmp", "tiff", "chuyen doi", "text", "extract", "doc",
             "chu", "ky tu", "bang", "bieu do">>
      [] agent_name = "general" ->
           <<"hoi", "giup", "tu van", "huong dan", "cach", "lam sao", "tai sao", "la gi",
             "nhu the nao", "khi nao", "o dau", "ai", "cai gi", "tai sao", "giai thich",
             "mo ta", "so sanh", "phan biet", "uu nhuoc diem", "code", "lap trinh",
             "programming", "python", "javascript", "java", "function", "class",
             "variable", "debug", "bug", "sua loi", "viet", "tao", "xay dung",
             "phat trien", "thiet ke">>
      [] OTHER -> << >>

\* One unit of score: a common multiple of the four keyword-list lengths and of 10,
\* so that matches/len(keywords) and the tenths of the context score are integers.
Unit == 25 * 23 * 21 * 36

\* 1.0 on the scale of final_score and confidence (weights 0.4/0.3/0.3 taken as 4/3/3)
One == 10 * Unit

(***************************************************************************)
(* Request texts.  A text is represented by the profile keywords that      *)
(* occur in it as substrings after lower-casing; a keyword that contains   *)
(* another keyword brings it along.                                        *)
(***************************************************************************)

PromptVocabulary == {"giai", "phuong trinh", "tin tuc", "tai sao", "giai thich"}

\* substring relation between the keywords of the vocabulary
SubstringOf(k) == IF k = "giai thich" THEN {"giai"} ELSE {}

Prompts == {p \in SUBSET PromptVocabulary : \A k \in p : SubstringOf(k) \subseteq p}

(***************************************************************************)
(* SemanticRouter                                                          *)
(***************************************************************************)

\* replies of the LLM to the context-analysis prompt
Intents == {"solve", "research", "process", "help", "learn", "unknown"}
Domains == {"math", "science", "tech", "general"}
Complexities == {"medium", "complex"}

DefaultContext ==
    [isdict |-> TRUE, intent |-> "unknown", domain |-> "general", complexity |-> "medium"]

\* kind "error": the API call raises or the content is not JSON;
\* kind "object": a JSON object; kind "nonobject": valid JSON that is no object
ContextReplies ==
    {[kind |-> "error", intent |-> "unknown", domain |-> "general", complexity |-> "medium"],
     [kind |-> "nonobject", intent |-> "unknown", domain |-> "general", complexity |-> "medium"]}
    \cup [kind : {"object"}, intent : Intents, domain : Domains, complexity : Complexities]

\* no call is made when there is no client
NoReply == [kind |-> "none", intent |-> "", domain |-> "", complexity |-> ""]

_analyze_context_with_ai(reply) ==
    IF ~groq_available THEN DefaultContext
    ELSE IF reply.kind = "error" THEN DefaultContext
    ELSE IF reply.kind = "object"
         THEN [isdict |-> TRUE, intent |-> reply.intent, domain |-> reply.domain,
               complexity |-> reply.complexity]
    ELSE [isdict |-> FALSE, intent |-> "", domain |-> "", complexity |-> ""]

\* number of list entries of the profile found in the prompt, over the list length
_calculate_keyword_score(p, agent_name) ==
    LET kws == Keywords(agent_name)
        matches == Cardinality({i \in 1..Len(kws) : kws[i] \in p})
    IN IF Len(kws) > 0 THEN (matches * Unit) \div Len(kws) ELSE 0

\* outcomes of embedding the prompt and taking the cosine with one profile
CosineTenths == {-5, 10}

EmbeddingOutcomes == [ok : {TRUE}, cos : CosineTenths] \cup {[ok |-> FALSE, cos |-> 0]}

\* nothing is embedded when no model is loaded
NoEmbedding == [ok |-> FALSE, cos |-> 0]

\* mutant: no keyword fallback when the embedding model is missing
SemanticSimilarityNoFallback(p, agent_name, emb) ==
    IF model_loaded /\ emb.ok THEN (emb.cos * Unit) \div 10 ELSE 0

_calculate_semantic_similarity(p, agent_name, emb) ==
    IF ~model_loaded THEN _calculate_keyword_score(p, agent_name)
    ELSE IF emb.ok THEN (emb.cos * Unit) \div 10
    ELSE 0

Min(a, b) == IF a < b THEN a ELSE b

_calculate_context_score(context, agent_name) ==
    LET tenth == Unit \div 10
        intent == context.intent
        domain == context.domain
        s1 == IF agent_name = "math" /\ intent \in {"solve", "calculate"} THEN 3 * tenth
              ELSE IF agent_name = "research" /\ intent \in {"research", "learn"} THEN 3 * tenth
              ELSE IF agent_name = "ocr" /\ intent \in {"process"} THEN 3 * tenth
              ELSE IF agent_name = "code" /\ intent \in {"solve", "create"} THEN 3 * tenth
              ELSE IF agent_name = "general" /\ intent \in {"help", "learn"} THEN 3 * tenth
              ELSE 0
        s2 == IF agent_name = "math" /\ domain \in {"math", "science"} THEN 2 * tenth
              ELSE IF agent_name = "research" /\ domain \in {"business", "tech", "science"}
                   THEN 2 * tenth
              ELSE IF agent_name = "code" /\ domain \in {"tech"} THEN 2 * tenth
              ELSE IF agent_name = "general" THEN tenth
              ELSE 0
        s3 == IF context.complexity = "complex" /\ agent_name \in {"math", "code"}
              THEN tenth ELSE 0
    IN Min(s1 + s2 + s3, Unit)

\* the three sub-scores and the weighted final score of every profile
AgentScores(p, context, embs) ==
    [a \in AgentNames |->
        LET semantic_score == _calculate_semantic_similarity(p, a, embs[a])
            keyword_score == _calculate_keyword_score(p, a)
            context_score == _calculate_context_score(context, a)
        IN [score |-> 4 * semantic_score + 3 * keyword_score + 3 * context_score,
            semantic |-> semantic_score,
            keyword |-> keyword_score,
            context |-> context_score]]

\* mutant: the last maximal entry in dict order
BestAgentLast(agent_scores) ==
    LET i == CHOOSE i \in 1..Len(Agents) :
                 /\ \A j \in 1..Len(Agents) :
                        agent_scores[Agents[j]].score <= agent_scores[Agents[i]].score
                 /\ \A j \in (i + 1)..Len(Agents) :
                        agent_scores[Agents[j]].score < agent_scores[Agents[i]].score
    IN Agents[i]

\* max(agent_scores.items(), key=score): the first maximal entry in dict order
BestAgent(agent_scores) ==
    LET i == CHOOSE i \in 1..Len(Agents) :
                 /\ \A j \in 1..Len(Agents) :
                        agent_scores[Agents[j]].score <= agent_scores[Agents[i]].score
                 /\ \A j \in 1..(i - 1) :
                        agent_scores[Agents[j]].score < agent_scores[Agents[i]].score
    IN Agents[i]

Reasoning(scores) ==
    LET parts ==
            (IF 10 * scores.semantic > 7 * Unit THEN <<"Tuong dong ngu nghia cao">> ELSE << >>)
         \o (IF 10 * scores.keyword > 3 * Unit THEN <<"Khop tu khoa chuyen mon">> ELSE << >>)
         \o (IF 10 * scores.context > 5 * Unit THEN <<"Phu hop voi ngu canh">> ELSE << >>)
    IN IF parts # << >> THEN parts ELSE <<"Phan tich tong hop">>

\* what went wrong inside a SemanticRouter.route call
SemanticFailure(reply, embs) ==
    IF ~groq_available /\ ~model_loaded THEN "llm_and_embedding_unavailable"
    ELSE IF ~groq_available THEN "llm_unavailable"
    ELSE IF reply.kind = "error" THEN "llm_error"
    ELSE IF reply.kind = "nonobject" THEN "malformed_json"
    ELSE IF ~model_loaded THEN "embedding_unavailable"
    ELSE IF \E a \in AgentNames : ~embs[a].ok THEN "embedding_error"
    ELSE "none"

SemanticRouter_route(p, reply, embs) ==
    LET context == _analyze_context_with_ai(reply)
    IN IF ~context.isdict
       THEN \* context.get(...) raises AttributeError in _calculate_context_score
            [NoDecision EXCEPT !.router = "semantic", !.status = "raised",
                               !.failure = SemanticFailure(reply, embs)]
       ELSE LET agent_scores == AgentScores(p, context, embs)
                agent_name == BestAgent(agent_scores)
                scores == agent_scores[agent_name]
            IN [router |-> "semantic", status |-> "returned", agent_type |-> agent_name,
                confidence |-> scores.score, confidence_is_number |-> TRUE,
                reasoning |-> Reasoning(scores),
                failure |-> SemanticFailure(reply, embs),
                scores |-> [i \in 1..Len(Agents) |-> agent_scores[Agents[i]].score]]

(***************************************************************************)
(* LLMRouter                                                               *)
(***************************************************************************)

\* names an LLM may put in the "agent" field: the registry and one name outside it
LLMAgentValues == AgentNames \cup {"code"}

\* numbers an LLM may put in the "confidence" field, in tenths
LLMConfidenceTenths == {-2, 0, 9, 10, 15}

\* shapes of the "alternatives" field: absent, a list of objects, null, a list of strings
AlternativeShapes == {"missing", "list", "null", "strings"}

\* kind "error": the API call raises, the content is not JSON, or it is JSON but no
\* object (the field defaulting at lines 215-222 then raises inside the try);
\* kind "object": a JSON object, with each expected field present or not
LLMReplies ==
    {[kind |-> "error", has_agent |-> FALSE, agent |-> "", has_confidence |-> FALSE,
      confidence_is_number |-> TRUE, confidence |-> 0, has_reasoning |-> FALSE,
      alternatives |-> "missing"]}
    \cup [kind : {"object"}, has_agent : {TRUE}, agent : LLMAgentValues,
          has_confidence : {TRUE}, confidence_is_number : {TRUE},
          confidence : LLMConfidenceTenths, has_reasoning : BOOLEAN,
          alternatives : AlternativeShapes]
    \cup [kind : {"object"}, has_agent : {TRUE}, agent : LLMAgentValues,
          has_confidence : {TRUE}, confidence_is_number : {FALSE},
          confidence : {0}, has_reasoning : {TRUE}, alternatives : {"list"}]
    \cup [kind : {"object"}, has_agent : BOOLEAN, agent : {"math"},
          has_confidence : {FALSE}, confidence_is_number : {TRUE},
          confidence : {0}, has_reasoning : {TRUE}, alternatives : {"missing", "list"}]

\* no call is made when there is no client
NoLLMReply ==
    [kind |-> "none", has_agent |-> FALSE, agent |-> "", has_confidence |-> FALSE,
     confidence_is_number |-> TRUE, confidence |-> 0, has_reasoning |-> FALSE,
     alternatives |-> "missing"]

\* the dict returned by _get_llm_routing_decision
_get_llm_routing_decision(reply) ==
    IF ~groq_available
    THEN [agent |-> "general", confidence |-> (5 * One) \div 10, confidence_is_number |-> TRUE,
          reasoning |-> <<"GROQ khong kha dung, chon general agent">>,
          alternatives |-> "list", failure |-> "llm_unavailable"]
    ELSE IF reply.kind = "error"
    THEN [agent |-> "general", confidence |-> (3 * One) \div 10, confidence_is_number |-> TRUE,
          reasoning |-> <<"Loi LLM routing">>,
          alternatives |-> "list", failure |-> "llm_error"]
    ELSE [agent |-> IF reply.has_agent THEN reply.agent ELSE "general",
          confidence |-> IF reply.has_confidence THEN (reply.confidence * One) \div 10
                         ELSE (5 * One) \div 10,
          confidence_is_number |-> IF reply.has_confidence THEN reply.confidence_is_number
                                   ELSE TRUE,
          reasoning |-> IF reply.has_reasoning THEN <<"llm reasoning">>
                        ELSE <<"Khong co ly do duoc cung cap">>,
          alternatives |-> IF reply.alternatives = "missing" THEN "list"
                           ELSE reply.alternatives,
          failure |-> "none"]

LLMRouter_route(reply) ==
    LET llm_decision == _get_llm_routing_decision(reply)
        unknown == llm_decision.agent \notin AgentNames
    IN IF llm_decision.alternatives # "list"
       THEN \* iterating None, or alt.get on a str, raises out of route
            [NoDecision EXCEPT !.router = "llm", !.status = "raised",
                               !.failure = "malformed_json"]
       ELSE [router |-> "llm", status |-> "returned",
             agent_type |-> IF unknown THEN "general" ELSE llm_decision.agent,
             confidence |-> IF unknown THEN (3 * One) \div 10 ELSE llm_decision.confidence,
             confidence_is_number |-> IF unknown THEN TRUE
                                      ELSE llm_decision.confidence_is_number,
             reasoning |-> IF unknown THEN <<"Agent khong ton tai, chon general">>
                           ELSE llm_decision.reasoning,
             failure |-> IF unknown THEN "unknown_agent" ELSE llm_decision.failure,
             scores |-> << >>]

(***************************************************************************)
(* ShortTermMemory                                                         *)
(***************************************************************************)

\* largest capacity a ShortTermMemory is constructed with
MaxSize == 3

\* the clock stops here: at most MaxTime - 1 timestamps are handed out
MaxTime == 6

Roles == {"user", "assistant", "system"}

\* message texts of direct add_message calls
Texts == {"m"}

\* mutant: a deque without maxlen, nothing is evicted
DequeAppendUnbounded(q, x, maxlen) == Append(q, x)

\* mutant: a full deque drops the newest element instead of the oldest
DequeAppendDropNewest(q, x, maxlen) ==
    IF Len(q) < maxlen THEN Append(q, x)
    ELSE Append(SubSeq(q, 1, Len(q) - 1), x)

\* collections.deque(maxlen=maxlen).append(x): a full deque drops its oldest element
DequeAppend(q, x, maxlen) ==
    IF Len(q) < maxlen THEN Append(q, x)
    ELSE Append(SubSeq(q, 2, Len(q)), x)

\* the Message built by add_message
Message(role, content, timestamp) ==
    [role |-> role, content |-> content, timestamp |-> timestamp]

add_message(role, content) ==
    /\ now < MaxTime
    /\ messages' = DequeAppend(messages, Message(role, content, now), max_size)
    /\ appended' = Append(appended, Message(role, content, now))
    /\ now' = now + 1
    /\ UNCHANGED <<max_size, imported, got>>

AddMessage ==
    /\ \E role \in Roles, content \in Texts : add_message(role, content)
    /\ UNCHANGED <<routerVars, ltmVars, requests>>

clear ==
    /\ messages' = << >>
    /\ appended' = << >>
    /\ imported' = FALSE
    /\ UNCHANGED <<max_size, now, got>>

Clear ==
    /\ clear
    /\ UNCHANGED <<routerVars, ltmVars, requests>>

RECURSIVE AppendAll(_, _, _)
\* for msg_data in messages_data: self.messages.append(Message.from_dict(msg_data))
AppendAll(q, data, maxlen) ==
    IF data = << >> THEN q
    ELSE AppendAll(DequeAppend(q, Head(data), maxlen), Tail(data), maxlen)

\* exported message dicts offered to import_messages
ImportedMessages ==
    {Message("user", "old question", 0), Message("assistant", "old answer", 0)}

RECURSIVE SeqsUpTo(_, _)
SeqsUpTo(S, n) ==
    IF n = 0 THEN {<< >>}
    ELSE LET shorter == SeqsUpTo(S, n - 1)
         IN shorter \cup {Append(q, x) : q \in shorter, x \in S}

ImportMessages ==
    /\ \E messages_data \in SeqsUpTo(ImportedMessages, max_size + 1) :
           /\ messages' = AppendAll(<< >>, messages_data, max_size)
           /\ appended' = messages_data
    /\ imported' = TRUE
    /\ UNCHANGED <<max_size, now, got>>
    /\ UNCHANGED <<routerVars, ltmVars, requests>>

InitSTM ==
    /\ RouterIdle
    /\ requests = << >>
    /\ LTMConstructed(TRUE)
    /\ \E n \in 1..MaxSize : STMConstructed(n)
    /\ now = 1

NextSTM == AddMessage \/ Clear \/ ImportMessages

SpecSTM == InitSTM /\ [][NextSTM]_vars

\* the last n elements of a sequence
LastN(q, n) == SubSeq(q, Len(q) - n + 1, Len(q))

\* C4: a ShortTermMemory never holds more than max_size messages; after max_size + 1
\* add_message calls on an empty memory it holds exactly max_size messages and the
\* first message added is gone.
C4_NeverExceedsCapacity ==
    /\ Len(messages) <= max_size
    /\ (~imported /\ Len(appended) = max_size + 1) =>
           /\ Len(messages) = max_size
           /\ \A i \in 1..Len(messages) : messages[i] # appended[1]

\* witness of C4: max_size + 1 messages were added to an empty memory of full size
C4_Witness ==
    /\ ~imported
    /\ max_size = MaxSize
    /\ Len(appended) = max_size + 1
    /\ Len(messages) = max_size

\* C5: after k add_message calls on an empty memory the held messages are exactly
\* the last min(k, max_size) messages added, in insertion order, whatever their roles.
C5_FifoEviction ==
    ~imported => messages = LastN(appended, Min(Len(appended), max_size))

\* witness of C5: the oldest message, a system message, was evicted by a later add
C5_Witness ==
    /\ ~imported
    /\ max_size = MaxSize
    /\ Len(appended) = max_size + 1
    /\ appended[1].role = "system"
    /\ appended[2].role = "user"
    /\ messages = SubSeq(appended, 2, max_size + 1)

(***************************************************************************)
(* Reads of short-term memory (short_term.py): get_messages.  An absent    *)
(* role_filter is written "", an absent limit as limit_given = FALSE.      *)
(***************************************************************************)

RECURSIVE OfRole(_, _)
\* [msg for msg in messages if msg.role == role_filter]
OfRole(q, role_filter) ==
    IF q = << >> THEN << >>
    ELSE IF Head(q).role = role_filter
         THEN <<Head(q)>> \o OfRole(Tail(q), role_filter)
         ELSE OfRole(Tail(q), role_filter)

\* the Python slice q[start:]
SliceFrom(q, start) ==
    LET first == IF start < 0
                 THEN (IF Len(q) + start < 0 THEN 0 ELSE Len(q) + start)
                 ELSE Min(start, Len(q))
    IN SubSeq(q, first + 1, Len(q))

\* ShortTermMemory.get_messages(limit, role_filter); "if role_filter:" and
\* "if limit:" skip a step when the argument is absent, "" or 0
get_messages(limit_given, limit, role_filter) ==
    LET filtered == IF role_filter # "" THEN OfRole(messages, role_filter)
                    ELSE messages
    IN IF limit_given /\ limit # 0 THEN SliceFrom(filtered, 0 - limit) ELSE filtered

GetMessages ==
    /\ \E limit_given \in BOOLEAN, limit \in 0..MaxSize, role_filter \in Roles \cup {""} :
           /\ ~limit_given => limit = 0
           /\ got' = [called |-> TRUE, limit_given |-> limit_given, limit |-> limit,
                      role_filter |-> role_filter, held |-> messages,
                      result |-> get_messages(limit_given, limit, role_filter)]
    /\ UNCHANGED <<messages, max_size, appended, imported>>
    /\ UNCHANGED <<routerVars, ltmVars, now, requests>>

\* a memory of some capacity after some add_message calls that did not fill it:
\* one message per clock tick, with any roles
InitRead ==
    /\ RouterIdle
    /\ requests = << >>
    /\ LTMConstructed(TRUE)
    /\ got = NoRead
    /\ imported = FALSE
    /\ \E n \in 1..MaxSize, added \in 0..MaxSize :
           /\ added <= n
           /\ max_size = n
           /\ now = added + 1
           /\ \E role \in [1..added -> Roles] :
                  messages = [i \in 1..added |-> Message(role[i], "m", i)]
    /\ appended = messages

NextRead == GetMessages

SpecRead == InitRead /\ [][NextRead]_vars

\* the messages of q whose role is role_filter, all of q when no filter is given
Matching(q, role_filter) ==
    IF role_filter = "" THEN q
    ELSE SelectSeq(q, LAMBDA m : m.role = role_filter)

\* C17: for every given limit, get_messages returns the suffix of length
\* min(limit, number of matching messages) of the role-filtered sequence, in
\* chronological order; without a limit it returns the whole filtered sequence.
C17_GetMessagesIsSuffix ==
    got.called =>
        LET matching == Matching(got.held, got.role_filter)
        IN got.result = IF got.limit_given
                        THEN LastN(matching, Min(got.limit, Len(matching)))
                        ELSE matching

(***************************************************************************)
(* Vector store (QdrantVectorStore) and LongTermMemoryManager              *)
(*                                                                         *)
(* A point keeps its vector and the payload fields memory_type,            *)
(* importance, created_at, last_accessed and access_count; tags, context   *)
(* and source are carried along unchanged by the code and are left out.    *)
(* An absent optional argument is written as the falsy value the code      *)
(* tests for: "" for memory_type, 0 for max_results and min_importance.    *)
(***************************************************************************)

\* number of points a collection may hold
MaxRecords == 2

\* number of times the clock advances between calls on the long-term memory
MaxTicks == 1

\* Config.SIMILARITY_THRESHOLD, in hundredths
SIMILARITY_THRESHOLD == 30

\* Config.MAX_SEARCH_RESULTS
MAX_SEARCH_RESULTS == 10

\* the memories stored: content, memory_type and importance (in tenths)
Memories ==
    {[content |-> "a", memory_type |-> "fact", importance |-> 9],
     [content |-> "b", memory_type |-> "fact", importance |-> 5],
     [content |-> "a", memory_type |-> "knowledge", importance |-> 5]}

\* the texts searched for
Queries == {"a", "c"}

\* EmbeddingService.embed_text: the model's vector of the text (written as the text
\* itself), or a fresh random vector when no model is loaded
embed_text(text) == IF embedding_loaded THEN text ELSE "random"

\* cosine similarity of two vectors, in hundredths; two random vectors of
\* non-negative coordinates are never equal and have a cosine of about 0.75
Cosine(u, v) ==
    IF u = "random" \/ v = "random" THEN 75
    ELSE IF u = v THEN 100
    ELSE IF {u, v} = {"a", "b"} THEN 30
    ELSE IF {u, v} = {"a", "c"} THEN 10
    ELSE 80

\* the point upserted by add_memory: payload = {"content": content, **metadata}
Point(id, content, metadata) ==
    [id |-> id, vector |-> embed_text(content), content |-> content,
     memory_type |-> metadata.memory_type, importance |-> metadata.importance,
     created_at |-> metadata.created_at, last_accessed |-> metadata.last_accessed,
     access_count |-> metadata.access_count]

\* mutant: a new record starts with last_accessed unset
MetadataNeverAccessed(memory_type, importance, current_time) ==
    [memory_type |-> memory_type, importance |-> importance,
     created_at |-> current_time, last_accessed |-> 0, access_count |-> 0]

\* the metadata dict built by store_memory
Metadata(memory_type, importance, current_time) ==
    [memory_type |-> memory_type, importance |-> importance,
     created_at |-> current_time, last_accessed |-> current_time, access_count |-> 0]

\* the result of a call, with every field present
Call(op, status) == [NoCall EXCEPT !.op = op, !.status = status]

\* awaited QdrantVectorStore.add_memory(content, metadata)
add_memory(content, metadata, ok) ==
    IF ok
    THEN /\ next_id <= MaxRecords
         /\ points' = Append(points, Point(next_id, content, metadata))
         /\ next_id' = next_id + 1
         /\ ltm_last' = [Call("add_memory", "returned") EXCEPT
                            !.content = content, !.memory_type = metadata.memory_type,
                            !.importance = metadata.importance, !.id = next_id,
                            !.value = "id"]
    ELSE /\ ltm_last' = [Call("add_memory", "raised") EXCEPT
                            !.content = content, !.memory_type = metadata.memory_type,
                            !.importance = metadata.importance]
         /\ UNCHANGED <<points, next_id>>

\* a caller of the vector store adds a memory and awaits it
AddMemory ==
    /\ \E memory \in Memories, ok \in BOOLEAN :
           add_memory(memory.content,
                      Metadata(memory.memory_type, memory.importance, now), ok)
    /\ UNCHANGED <<routerVars, stmVars, embedding_loaded, stores, now, requests>>

\* LongTermMemoryManager.store_memory: the metadata is built and add_memory is
\* called without await, so its coroutine never runs and nothing is written; the
\* coroutine object is returned in place of a memory id.  ok = FALSE: a statement of
\* the try block raises and the except clause re-raises.
store_memory(content, memory_type, importance, ok) ==
    /\ ltm_last' = [Call("store_memory", IF ok THEN "returned" ELSE "raised") EXCEPT
                       !.content = content, !.memory_type = memory_type,
                       !.importance = importance,
                       !.value = IF ok THEN "coroutine" ELSE "none"]
    /\ UNCHANGED <<points, next_id>>

StoreMemory ==
    /\ \E memory \in Memories, ok \in BOOLEAN :
           store_memory(memory.content, memory.memory_type, memory.importance, ok)
    /\ UNCHANGED <<routerVars, stmVars, embedding_loaded, stores, now, requests>>

\* the search hit built for a point: id, content, similarity and the payload copy
Hit(point, query_vector) ==
    [id |-> point.id, content |-> point.content,
     similarity |-> Cosine(query_vector, point.vector),
     memory_type |-> point.memory_type, importance |-> point.importance,
     created_at |-> point.created_at, last_accessed |-> point.last_accessed,
     access_count |-> point.access_count]

\* mutant: the score threshold is not handed to the search
AdmitsIgnoringThreshold(similarity, threshold) == TRUE

\* score_threshold of client.search: hits scoring below it are left out
Admits(similarity, threshold) == similarity >= threshold

RECURSIVE Ranked(_, _)
\* the hits of the index set I, best score first, earlier point first among equals
Ranked(I, query_vector) ==
    IF I = {} THEN << >>
    ELSE LET best == CHOOSE i \in I : \A j \in I :
                         \/ Cosine(query_vector, points[j].vector)
                              < Cosine(query_vector, points[i].vector)
                         \/ /\ Cosine(query_vector, points[j].vector)
                                 = Cosine(query_vector, points[i].vector)
                            /\ i <= j
         IN <<Hit(points[best], query_vector)>> \o Ranked(I \ {best}, query_vector)

\* QdrantVectorStore.search_memories; ok = FALSE: the search raises and [] is returned
search_memories(query, n_results, threshold, memory_type, ok) ==
    IF ~ok THEN << >>
    ELSE LET query_vector == embed_text(query)
             I == {i \in 1..Len(points) :
                      /\ Admits(Cosine(query_vector, points[i].vector), threshold)
                      /\ (memory_type # "" => points[i].memory_type = memory_type)}
             ranked == Ranked(I, query_vector)
         IN SubSeq(ranked, 1, Min(n_results, Len(ranked)))

\* the memory_result built for a hit, with the access bookkeeping done on the copy
MemoryResult(hit, current_time) ==
    [id |-> hit.id, content |-> hit.content, memory_type |-> hit.memory_type,
     importance |-> hit.importance, created_at |-> hit.created_at,
     last_accessed |-> current_time, access_count |-> hit.access_count + 1,
     similarity_score |-> hit.similarity]

RECURSIVE FilterResults(_, _, _, _, _, _)
\* the loop of retrieve_memories over the search results
FilterResults(search_results, memory_type, min_importance, max_results, current_time, acc) ==
    IF search_results = << >> THEN acc
    ELSE LET result == Head(search_results)
             rest == Tail(search_results)
         IN IF memory_type # "" /\ result.memory_type # memory_type
            THEN FilterResults(rest, memory_type, min_importance, max_results,
                               current_time, acc)
            ELSE IF min_importance # 0 /\ result.importance < min_importance
            THEN FilterResults(rest, memory_type, min_importance, max_results,
                               current_time, acc)
            ELSE LET filtered == Append(acc, MemoryResult(result, current_time))
                 IN IF max_results # 0 /\ Len(filtered) >= max_results THEN filtered
                    ELSE FilterResults(rest, memory_type, min_importance, max_results,
                                       current_time, filtered)

\* the list returned by LongTermMemoryManager.retrieve_memories
retrieve_memories(query, memory_type, max_results, min_importance, ok) ==
    FilterResults(
        search_memories(query, IF max_results # 0 THEN max_results ELSE MAX_SEARCH_RESULTS,
                        SIMILARITY_THRESHOLD, "", ok),
        memory_type, min_importance, max_results, now, << >>)

\* a call of retrieve_memories and its result; the collection itself is not written
RetrieveCall(query, memory_type, max_results, min_importance, ok) ==
    /\ ltm_last' = [Call("retrieve_memories", "returned") EXCEPT
           !.content = query, !.memory_type = memory_type,
           !.importance = min_importance, !.max_results = max_results,
           !.threshold = SIMILARITY_THRESHOLD,
           !.value = IF ok THEN "list" ELSE "search failed", !.store_ok = ok,
           !.follows_store = /\ ltm_last.op = "store_memory"
                             /\ ltm_last.status = "returned"
                             /\ ltm_last.content = query
                             /\ ltm_last.memory_type = memory_type,
           !.results = retrieve_memories(query, memory_type, max_results,
                                         min_importance, ok)]
    /\ UNCHANGED <<points, next_id>>

RetrieveMemories ==
    /\ \E query \in Queries, memory_type \in {"", "fact"}, max_results \in {0, 1},
          min_importance \in {0, 7}, ok \in BOOLEAN :
           RetrieveCall(query, memory_type, max_results, min_importance, ok)
    /\ UNCHANGED <<routerVars, stmVars, embedding_loaded, stores, now, requests>>

\* the record built by QdrantVectorStore.get_memory for a point
FetchedRecord(point) ==
    [id |-> point.id, content |-> point.content, memory_type |-> point.memory_type,
     importance |-> point.importance, created_at |-> point.created_at,
     last_accessed |-> point.last_accessed, access_count |-> point.access_count]

\* awaited QdrantVectorStore.get_memory(memory_id): the record of the point, or None
\* when there is no such point; ok = FALSE: client.retrieve raises and None is returned
get_memory(memory_id, ok) ==
    LET I == {i \in 1..Len(points) : points[i].id = memory_id}
    IN IF ok /\ I # {}
       THEN [Call("get_memory", "returned") EXCEPT
                !.id = memory_id, !.value = "record",
                !.content = points[CHOOSE i \in I : TRUE].content,
                !.memory_type = points[CHOOSE i \in I : TRUE].memory_type,
                !.results = <<FetchedRecord(points[CHOOSE i \in I : TRUE])>>]
       ELSE [Call("get_memory", "returned") EXCEPT
                !.id = memory_id,
                !.value = IF ok THEN "None" ELSE "retrieve failed"]

\* a caller of the vector store fetches a point and awaits it
GetMemory ==
    /\ \E memory_id \in 1..MaxRecords, ok \in BOOLEAN :
           ltm_last' = get_memory(memory_id, ok)
    /\ UNCHANGED <<points, next_id>>
    /\ UNCHANGED <<routerVars, stmVars, embedding_loaded, stores, now, requests>>

\* LongTermMemoryManager.get_memory_by_id: get_memory is called without await, so
\* memory_data is a coroutine object; it is truthy and memory_data.get raises
\* AttributeError, which the except clause turns into None
get_memory_by_id(memory_id) ==
    [Call("get_memory_by_id", "returned") EXCEPT !.id = memory_id, !.value = "None"]

GetMemoryById ==
    /\ \E memory_id \in 1..MaxRecords : ltm_last' = get_memory_by_id(memory_id)
    /\ UNCHANGED <<points, next_id>>
    /\ UNCHANGED <<routerVars, stmVars, embedding_loaded, stores, now, requests>>

\* LongTermMemoryManager.delete_memory: the async vector_store.delete_memory is
\* called without await; its coroutine object is returned and never run, so nothing
\* is deleted whether or not the store would have answered (ok)
delete_memory(memory_id, ok) ==
    [Call("delete_memory", "returned") EXCEPT
        !.id = memory_id, !.value = "coroutine", !.store_ok = ok]

DeleteMemory ==
    /\ \E memory_id \in 1..MaxRecords, ok \in BOOLEAN :
           ltm_last' = delete_memory(memory_id, ok)
    /\ UNCHANGED <<points, next_id>>
    /\ UNCHANGED <<routerVars, stmVars, embedding_loaded, stores, now, requests>>

\* LongTermMemoryManager.list_all_memories: QdrantVectorStore has no list_memories
\* method, so the attribute lookup raises and the except clause returns []
list_all_memories(ok) ==
    [Call("list_all_memories", "returned") EXCEPT !.value = "[]", !.store_ok = ok]

ListAllMemories ==
    /\ \E ok \in BOOLEAN : ltm_last' = list_all_memories(ok)
    /\ UNCHANGED <<points, next_id>>
    /\ UNCHANGED <<routerVars, stmVars, embedding_loaded, stores, now, requests>>

\* LongTermMemoryManager.clear_all_memories: QdrantVectorStore has no
\* clear_all_memories method (its method is clear_collection), so the attribute
\* lookup raises and the except clause returns False
clear_all_memories(ok) ==
    [Call("clear_all_memories", "returned") EXCEPT !.value = "False", !.store_ok = ok]

ClearAllMemories ==
    /\ \E ok \in BOOLEAN : ltm_last' = clear_all_memories(ok)
    /\ UNCHANGED <<points, next_id>>
    /\ UNCHANGED <<routerVars, stmVars, embedding_loaded, stores, now, requests>>

\* time passes
Tick ==
    /\ now <= MaxTicks
    /\ now' = now + 1
    /\ UNCHANGED <<routerVars, stmVars, ltmVars, requests>>

InitLTM ==
    /\ RouterIdle
    /\ requests = << >>
    /\ STMConstructed(MaxSize)
    /\ \E loaded \in BOOLEAN : LTMConstructed(loaded)
    /\ now = 1

NextLTM ==
    \/ AddMemory
    \/ StoreMemory
    \/ RetrieveMemories
    \/ GetMemory
    \/ GetMemoryById
    \/ DeleteMemory
    \/ ListAllMemories
    \/ ClearAllMemories
    \/ Tick

SpecLTM == InitLTM /\ [][NextLTM]_vars

\* the stored point with the given id, as a set of zero or one points
Stored(id) == {points[i] : i \in {j \in 1..Len(points) : points[j].id = id}}

\* the records returned by the last retrieve_memories call
Retrieved == {ltm_last.results[i] : i \in 1..Len(ltm_last.results)}

\* C8: after store_memory(c, t) has returned, a following
\* retrieve_memories(query = c, memory_type = t) whose search succeeds returns a
\* record with content c.
C8_StoredMemoryIsRetrieved ==
    (/\ ltm_last.op = "retrieve_memories"
     /\ ltm_last.follows_store
     /\ ltm_last.value = "list") =>
        \E r \in Retrieved : r.content = ltm_last.content

\* C9: every record returned by retrieve_memories has a similarity score of at
\* least the threshold in force.
C9_ResultsReachThreshold ==
    ltm_last.op = "retrieve_memories" =>
        \A r \in Retrieved : r.similarity_score >= ltm_last.threshold

\* witness of C9: a retrieval returned a record while the collection also holds a
\* point whose similarity to the query is below the threshold
C9_Witness ==
    /\ ltm_last.op = "retrieve_memories"
    /\ Retrieved # {}
    /\ \E i \in 1..Len(points) :
           Cosine(embed_text(ltm_last.content), points[i].vector) < ltm_last.threshold

\* C10: every record returned by retrieve_memories has its incremented access_count
\* and its new last_accessed in the stored record.
C10_AccessBookkeepingStored ==
    ltm_last.op = "retrieve_memories" =>
        \A r \in Retrieved : \A point \in Stored(r.id) :
            /\ point.access_count = r.access_count
            /\ point.last_accessed = r.last_accessed

\* C11: a single-record fetch of an existing id, through the vector store or through
\* the manager, returns the stored content and memory_type of the record with its
\* stored access_count (fetches whose store lookup failed are left aside).
C11_FetchReturnsStoredRecord ==
    (/\ ltm_last.op \in {"get_memory", "get_memory_by_id"}
     /\ ltm_last.value # "retrieve failed"
     /\ Stored(ltm_last.id) # {}) =>
        /\ ltm_last.value = "record"
        /\ \A point \in Stored(ltm_last.id) :
               /\ ltm_last.content = point.content
               /\ ltm_last.memory_type = point.memory_type
               /\ ltm_last.results[1].access_count = point.access_count

\* C12: in every reachable state every long-term record, stored or handed out by a
\* read, has last_accessed >= created_at, and no step of store_memory,
\* retrieve_memories or a single-record fetch lowers the access_count of a stored
\* record.
C12_AccessTimesAndCountsMonotone ==
    /\ [](/\ \A i \in 1..Len(points) : points[i].last_accessed >= points[i].created_at
          /\ \A r \in Retrieved : r.last_accessed >= r.created_at)
    /\ [][/\ Len(points') >= Len(points)
          /\ \A i \in 1..Len(points) :
                 /\ points'[i].id = points[i].id
                 /\ points'[i].access_count >= points[i].access_count]_vars

\* witness of C12: a retrieval at a later time than the record's creation handed
\* out the record, with a later last_accessed and a raised access_count
C12_Witness ==
    /\ ltm_last.op = "retrieve_memories"
    /\ \E r \in Retrieved :
           /\ r.last_accessed > r.created_at
           /\ r.access_count > 0
           /\ Stored(r.id) # {}

\* C24: every store_memory call that returns, in any interleaving of store_memory
\* calls on one namespace, returns an id that no stored record has yet and leaves
\* the namespace holding one more record, with every earlier record unchanged.
C24_EveryStoreAddsARecord ==
    [][(/\ ltm_last' # ltm_last
        /\ ltm_last'.op = "store_memory"
        /\ ltm_last'.status = "returned") =>
           /\ ltm_last'.value = "id"
           /\ Stored(ltm_last'.id) = {}
           /\ Len(points') = Len(points) + 1
           /\ points'[Len(points')].id = ltm_last'.id
           /\ \A i \in 1..Len(points) : points'[i] = points[i]]_vars

\* C26: delete_memory, list_all_memories and clear_all_memories take effect: after
\* delete_memory(id) has returned a true value no record with that id is stored, after
\* clear_all_memories has returned true the namespace is empty, and
\* list_all_memories returns the records the store holds.
C26_PassthroughsTakeEffect ==
    /\ (ltm_last.op = "delete_memory" /\ ltm_last.value \notin {"False", "none"}) =>
           Stored(ltm_last.id) = {}
    /\ (ltm_last.op = "clear_all_memories" /\ ltm_last.value = "True") =>
           points = << >>
    /\ ltm_last.op = "list_all_memories" =>
           /\ Len(ltm_last.results) = Len(points)
           /\ \A i \in 1..Len(points) :
                  \E j \in 1..Len(ltm_last.results) : ltm_last.results[j].id = points[i].id

\* the stored records a retrieval with the arguments of the last call is after:
\* those of the asked type and importance whose similarity reaches the threshold
Eligible ==
    {i \in 1..Len(points) :
        /\ points[i].memory_type = ltm_last.memory_type
        /\ points[i].importance >= ltm_last.importance
        /\ Cosine(embed_text(ltm_last.content), points[i].vector) >= ltm_last.threshold}

\* C29: retrieve_memories(query, memory_type = T, max_results = K, min_importance = I)
\* returns at most K records, all of type T and importance >= I, in ranking order,
\* and it returns min(K, number of stored records of type T with importance >= I
\* and similarity >= threshold) of them: records of other types never crowd matching
\* records out.
C29_MatchingRecordsNotCrowdedOut ==
    (/\ ltm_last.op = "retrieve_memories"
     /\ ltm_last.value = "list"
     /\ ltm_last.memory_type # ""
     /\ ltm_last.max_results # 0) =>
        /\ Len(ltm_last.results) <= ltm_last.max_results
        /\ \A r \in Retrieved :
               /\ r.memory_type = ltm_last.memory_type
               /\ r.importance >= ltm_last.importance
        /\ \A i, j \in 1..Len(ltm_last.results) :
               i < j => ltm_last.results[i].similarity_score
                          >= ltm_last.results[j].similarity_score
        /\ Len(ltm_last.results) = Min(ltm_last.max_results, Cardinality(Eligible))

\* C16: delete_memory, list_all_memories, clear_all_memories and retrieve_memories
\* never raise, and when the vector store fails they return false (delete, clear) or
\* an empty list (list, retrieve).
C16_FailSoftReturns ==
    ltm_last.op \in {"delete_memory", "list_all_memories", "clear_all_memories",
                     "retrieve_memories"} =>
        /\ ltm_last.status = "returned"
        /\ ~ltm_last.store_ok =>
               /\ ltm_last.op \in {"delete_memory", "clear_all_memories"} =>
                      ltm_last.value = "False"
               /\ ltm_last.op = "list_all_memories" => ltm_last.value = "[]"
               /\ ltm_last.op = "retrieve_memories" => ltm_last.results = << >>

(***************************************************************************)
(* The LongTermMemory dataclass (long_term.py): to_dict and from_dict.     *)
(* A dict is written as the sequence of its (key, value) pairs; the        *)
(* optional fields context and source hold "None" when absent.             *)
(***************************************************************************)

\* the fields of the dataclass, in declaration order
LongTermMemoryFields ==
    <<"content", "memory_type", "importance", "created_at", "last_accessed",
      "access_count", "tags", "context", "source">>

\* the LongTermMemory records converted
LongTermMemories ==
    [content : {"a", "b"}, memory_type : {"fact", "knowledge"}, importance : {5, 9},
     created_at : {1, 2}, last_accessed : {2}, access_count : {0, 1},
     tags : {<< >>, <<"math">>, <<"math", "solution">>},
     context : {"None", "Math problem solved"}, source : {"None", "math_agent"}]

\* the value asdict puts under a key: the list of tags is rebuilt element by
\* element, every other value is copied
DeepCopy(memory, field) ==
    IF field = "tags"
    THEN [i \in 1..Len(memory.tags) |-> memory.tags[i]]
    ELSE memory[field]

\* mutant: the dict is built without the source key
to_dictWithoutSource(memory) ==
    [i \in 1..(Len(LongTermMemoryFields) - 1) |->
        <<LongTermMemoryFields[i], DeepCopy(memory, LongTermMemoryFields[i])>>]

\* LongTermMemory.to_dict: dataclasses.asdict(self)
to_dict(memory) ==
    [i \in 1..Len(LongTermMemoryFields) |->
        <<LongTermMemoryFields[i], DeepCopy(memory, LongTermMemoryFields[i])>>]

\* the value cls(**data) gives a field: the value under its key, else the default
Argument(data, field) ==
    IF \E i \in 1..Len(data) : data[i][1] = field
    THEN data[CHOOSE i \in 1..Len(data) : data[i][1] = field][2]
    ELSE "None"

\* LongTermMemory.from_dict: cls(**data)
from_dict(data) ==
    [field \in {LongTermMemoryFields[i] : i \in 1..Len(LongTermMemoryFields)} |->
        Argument(data, field)]

\* a record is converted to a dict and a record is built from that dict
RoundTrip ==
    /\ \E memory \in LongTermMemories :
           ltm_last' = [Call("from_dict(to_dict)", "returned") EXCEPT
                           !.results = <<memory, from_dict(to_dict(memory))>>]
    /\ UNCHANGED <<points, next_id>>
    /\ UNCHANGED <<routerVars, stmVars, embedding_loaded, stores, now, requests>>

NextRecord == RoundTrip

SpecRecord == InitLTM /\ [][NextRecord]_vars

\* C21: for every LongTermMemory record m, from_dict(to_dict(m)) equals m field for
\* field.
C21_DictRoundTrip ==
    ltm_last.op = "from_dict(to_dict)" =>
        \A i \in 1..Len(LongTermMemoryFields) :
            ltm_last.results[2][LongTermMemoryFields[i]]
              = ltm_last.results[1][LongTermMemoryFields[i]]

\* witness of C21: a record with tags, a context and a source went through the
\* round trip
C21_Witness ==
    /\ ltm_last.op = "from_dict(to_dict)"
    /\ Len(ltm_last.results[1].tags) = 2
    /\ ltm_last.results[1].context # "None"
    /\ ltm_last.results[1].source # "None"
    /\ ltm_last.results[2].tags = ltm_last.results[1].tags

(***************************************************************************)
(* Namespaces (qdrant_store.py): the stores constructed for (user_id,      *)
(* session_id) pairs.  An id is written as the sequence of the pieces      *)
(* that "_" separates in it, so that the f-strings of __init__ are         *)
(* concatenations of sequences; << >> is an id not given (None or "").     *)
(* Every store constructs its own QdrantClient(":memory:").                *)
(***************************************************************************)

\* number of QdrantVectorStore objects constructed
MaxStores == 2

UserIds == {<< >>, <<"a">>, <<"a", "session", "b">>}

SessionIds == {<< >>, <<"c">>, <<"b", "session", "c">>}

\* Config.QDRANT_COLLECTION_NAME
QDRANT_COLLECTION_NAME == <<"master", "agent", "memory">>

\* the collection name chosen by QdrantVectorStore.__init__
CollectionName(user_id, session_id) ==
    IF user_id # << >> /\ session_id # << >>
    THEN <<"user">> \o user_id \o <<"session">> \o session_id
    ELSE IF user_id # << >>
    THEN <<"user">> \o user_id \o <<"global">>
    ELSE QDRANT_COLLECTION_NAME

\* self.client = QdrantClient(":memory:"): the k-th store has a client of its own
Client(k) == k

\* QdrantVectorStore(user_id = ..., session_id = ...)
NewStore ==
    /\ Len(stores.instances) < MaxStores
    /\ \E user_id \in UserIds, session_id \in SessionIds :
           stores' = [stores EXCEPT !.instances = Append(@,
               [user_id |-> user_id, session_id |-> session_id,
                collection_name |-> CollectionName(user_id, session_id),
                client |-> Client(Len(stores.instances) + 1),
                searched |-> FALSE, found |-> {}])]
    /\ UNCHANGED <<routerVars, stmVars, points, next_id, embedding_loaded, ltm_last,
                   now, requests>>

\* awaited add_memory on the k-th store: a point is upserted into the collection of
\* that name held by the store's client
StoreAddMemory ==
    /\ \E k \in 1..Len(stores.instances) :
           stores' = [stores EXCEPT !.database = @ \cup
               {[client |-> stores.instances[k].client,
                 collection_name |-> stores.instances[k].collection_name,
                 added_through |-> k]}]
    /\ UNCHANGED <<routerVars, stmVars, points, next_id, embedding_loaded, ltm_last,
                   now, requests>>

\* awaited search_memories (or get_memory) on the k-th store: it reads the collection
\* of that name held by the store's client
StoreSearchMemories ==
    /\ \E k \in 1..Len(stores.instances) :
           stores' = [stores EXCEPT
               ![ "instances" ][k].searched = TRUE,
               ![ "instances" ][k].found =
                   {m \in stores.database :
                        /\ m.client = stores.instances[k].client
                        /\ m.collection_name = stores.instances[k].collection_name}]
    /\ UNCHANGED <<routerVars, stmVars, points, next_id, embedding_loaded, ltm_last,
                   now, requests>>

InitStores ==
    /\ RouterIdle
    /\ requests = << >>
    /\ STMConstructed(MaxSize)
    /\ LTMConstructed(TRUE)
    /\ now = 1

NextStores == NewStore \/ StoreAddMemory \/ StoreSearchMemories

SpecStores == InitStores /\ [][NextStores]_vars

\* the stores constructed for different (user_id, session_id) pairs
DistinctPairs ==
    {<<k1, k2>> \in (1..Len(stores.instances)) \X (1..Len(stores.instances)) :
         <<stores.instances[k1].user_id, stores.instances[k1].session_id>>
           # <<stores.instances[k2].user_id, stores.instances[k2].session_id>>}

\* C14: the stores of two distinct (user_id, session_id) pairs use distinct
\* collections, and a record added through one is never found through the other.
C14_NamespacesIsolated ==
    \A pair \in DistinctPairs :
        /\ stores.instances[pair[1]].collection_name
             # stores.instances[pair[2]].collection_name
        /\ \A m \in stores.instances[pair[2]].found : m.added_through # pair[1]

(***************************************************************************)
(* Dispatch (master_agent.py): route_to_agent and the four handlers.       *)
(* All requests share the module-level ShortTermMemory and                 *)
(* LongTermMemoryManager.  A handler runs in two steps, split where it     *)
(* waits for its engine: Start (up to the engine call) and Engine (the     *)
(* engine's outcome, the write-back Finish and the return).                *)
(***************************************************************************)

\* number of requests dispatched in one run
MaxRequests == 2

\* request texts; "" is the empty request
RequestTexts == {"", "a"}

\* the sessions the requests come from (flask_app passes session_id with each request)
Sessions == {"A", "B"}

\* texts an engine answers with; only the long one exceeds 100 characters
Answers == {"short answer", "long answer"}

IsSubstantial(result_text) == result_text = "long answer"

\* the text returned for an answer; tag is the banner put before it ("" for none)
Answer(tag, body) == [kind |-> "answer", tag |-> tag, body |-> body, by |-> "handler"]

\* a text that asks the user for something or reports a missing configuration
Notice(tag) == [kind |-> "notice", tag |-> tag, body |-> "", by |-> "handler"]

\* the text a handler's own except clause returns: it names the handler
HandlerError(agent) == [kind |-> "error", tag |-> agent, body |-> "", by |-> "handler"]

\* mutant: route_to_agent lets the handler's exception through
DispatchErrorPropagates(agent) ==
    [kind |-> "raised", tag |-> "", body |-> "", by |-> "dispatch"]

\* the text route_to_agent's except clause sets: it names state.agent_type.value
DispatchError(agent) == [kind |-> "error", tag |-> agent, body |-> "", by |-> "dispatch"]

\* mutant: the handler's return never reaches route_to_agent
NeverReturns(r, result, raised) == UNCHANGED requests

Returns(r, result, raised) ==
    requests' = [requests EXCEPT ![r].pc = "done", ![r].result = result,
                                 ![r].raised = raised]

\* _run_math_agent up to math_graph.ainvoke
StartMath(r, text) ==
    /\ add_message("user", text)
    /\ \E ok \in BOOLEAN : RetrieveCall(text, "math_solution", 3, 0, ok)
    /\ requests' = [requests EXCEPT ![r].pc = "engine", ![r].agent_type = "math",
                                    ![r].text = text, ![r].user_message = now]
    /\ UNCHANGED <<embedding_loaded, stores>>

\* _run_research_agent: retrieve_memories is called without await, so
\* related_research is a coroutine object; it is truthy and enumerate() over it
\* raises TypeError, which the handler's except clause turns into its error text
StartResearch(r, text) ==
    /\ add_message("user", text)
    /\ requests' = [requests EXCEPT ![r].pc = "done", ![r].agent_type = "research",
                                    ![r].text = text, ![r].raised = "lookup",
                                    ![r].user_message = now,
                                    ![r].result = HandlerError("research")]
    /\ UNCHANGED ltmVars

\* _run_ocr_agent up to the OCR upload; no memory is touched
StartOCR(r, text) ==
    /\ \E path \in {"no path", "missing file", "raises", "found"} :
           requests' = [requests EXCEPT
               ![r].agent_type = "ocr", ![r].text = text,
               ![r].pc = IF path = "found" THEN "engine" ELSE "done",
               ![r].raised = IF path = "raises" THEN "preamble" ELSE "none",
               ![r].result = IF path = "found" THEN NoResult
                             ELSE IF path = "raises" THEN DispatchError("ocr")
                             ELSE Notice("ocr")]
    /\ UNCHANGED <<stmVars, ltmVars, now>>

\* _run_general_agent up to the chat completion; get_conversation_context reads the
\* messages held after the user message has been added
StartGeneral(r, text) ==
    IF ~groq_available
    THEN /\ requests' = [requests EXCEPT ![r].pc = "done", ![r].agent_type = "general",
                                         ![r].text = text, ![r].result = Notice("general")]
         /\ UNCHANGED <<stmVars, ltmVars, now>>
    ELSE /\ add_message("user", text)
         /\ \E ok \in BOOLEAN : RetrieveCall(text, "knowledge", 3, 0, ok)
         /\ requests' = [requests EXCEPT ![r].pc = "engine", ![r].agent_type = "general",
                                         ![r].text = text, ![r].user_message = now,
                                         ![r].context = messages']
         /\ UNCHANGED <<embedding_loaded, stores>>

\* the text route_to_agent sets when state.agent_type is not a key of registry.agents
UnknownAgent == [kind |-> "error", tag |-> "unknown agent", body |-> "", by |-> "dispatch"]

\* route_to_agent with a state whose agent_type is not registered (None): no handler
\* is called
StartUnknown(r, text) ==
    /\ requests' = [requests EXCEPT ![r].pc = "done", ![r].agent_type = "None",
                                    ![r].text = text, ![r].result = UnknownAgent]
    /\ UNCHANGED <<stmVars, ltmVars, now>>

\* route_to_agent looks up the handler of state.agent_type and calls it
Start ==
    /\ \E r \in 1..Len(requests), text \in RequestTexts :
           /\ requests[r].pc = "idle"
           /\ \/ StartMath(r, text)
              \/ StartResearch(r, text)
              \/ StartOCR(r, text)
              \/ StartGeneral(r, text)
              \/ StartUnknown(r, text)
    /\ UNCHANGED routerVars

\* the rest of a math or general handler once its engine has answered: it stores the
\* answer, appends the assistant message and returns; nothing in it waits, so it runs
\* in the step in which the answer arrives
Finish(r, answer) ==
    LET req == requests[r]
        agent == req.agent_type
        storing == agent = "math" \/ IsSubstantial(answer)
        banner == IF agent = "math" THEN "" ELSE agent
    IN /\ \/ /\ storing
             /\ store_memory(req.text, IF agent = "math" THEN "math_solution"
                                       ELSE "knowledge",
                             IF agent = "math" THEN 8 ELSE 6, FALSE)
             /\ requests' = [requests EXCEPT ![r].pc = "done", ![r].answer = answer,
                                ![r].store = "raised", ![r].raised = "store",
                                ![r].result = HandlerError(agent)]
             /\ UNCHANGED <<stmVars, now>>
          \/ /\ IF storing
                THEN store_memory(req.text, IF agent = "math" THEN "math_solution"
                                            ELSE "knowledge",
                                  IF agent = "math" THEN 8 ELSE 6, TRUE)
                ELSE UNCHANGED <<points, next_id, ltm_last>>
             /\ add_message("assistant", answer)
             /\ requests' = [requests EXCEPT ![r].pc = "done", ![r].answer = answer,
                                ![r].store = IF storing THEN "returned" ELSE "skipped",
                                ![r].assistant_message = now,
                                ![r].result = Answer(banner, answer)]
       /\ UNCHANGED <<embedding_loaded, stores>>

\* the engine of the handler (math graph, OCR server, chat completion) answers or
\* raises, and the handler runs on to its return
Engine ==
    /\ \E r \in 1..Len(requests) :
           /\ requests[r].pc = "engine"
           /\ \/ \E answer \in Answers :
                     IF requests[r].agent_type = "ocr"
                     THEN /\ Returns(r, Answer("ocr", answer), "none")
                          /\ UNCHANGED <<stmVars, ltmVars, now>>
                     ELSE Finish(r, answer)
              \/ /\ Returns(r, HandlerError(requests[r].agent_type), "engine")
                 /\ UNCHANGED <<stmVars, ltmVars, now>>
              \/ /\ requests[r].agent_type = "ocr"
                 /\ \E reply \in {"status not ok", "no text"} :
                        Returns(r, IF reply = "no text" THEN Notice("ocr")
                                   ELSE HandlerError("ocr"), "none")
                 /\ UNCHANGED <<stmVars, ltmVars, now>>
    /\ UNCHANGED routerVars

InitDispatch ==
    /\ prompt = {}
    /\ model_loaded = FALSE
    /\ profile_embeddings = NoProfileEmbeddings
    /\ state = MasterAgentState
    /\ groq_available \in BOOLEAN
    /\ decision = NoDecision
    /\ STMConstructed(MaxSize)
    /\ LTMConstructed(TRUE)
    /\ now = 1
    /\ \E session_id \in [1..MaxRequests -> Sessions] :
           \* request numbers are labels: the requests are numbered by session
           /\ \A r \in 1..(MaxRequests - 1) :
                  session_id[r] = "B" => session_id[r + 1] = "B"
           /\ requests = [r \in 1..MaxRequests |->
                             [NoRequest EXCEPT !.session = session_id[r]]]

NextDispatch == Start \/ Engine

SpecDispatch == InitDispatch /\ [][NextDispatch]_vars

\* C6: when a handler raises, at whatever point, the dispatch step still completes
\* with a text that names the handler; the exception does not leave route_to_agent.
C6_HandlerExceptionBecomesText ==
    \A r \in 1..Len(requests) :
        requests[r].raised # "none" =>
            /\ requests[r].pc = "done"
            /\ requests[r].result.kind = "error"
            /\ requests[r].result.tag = requests[r].agent_type

\* witness of C6: the engine of the general handler raised, the preamble of the ocr
\* handler raised, and both requests completed
C6_Witness ==
    /\ \E r \in 1..Len(requests) :
           /\ requests[r].agent_type = "general"
           /\ requests[r].raised = "engine"
           /\ requests[r].pc = "done"
    /\ \E r \in 1..Len(requests) :
           /\ requests[r].agent_type = "ocr"
           /\ requests[r].raised = "preamble"
           /\ requests[r].pc = "done"

\* C7: when the engine has produced an answer and the long-term store raises, the
\* text returned by the dispatch step still contains that answer.
C7_FailedStoreKeepsAnswer ==
    \A r \in 1..Len(requests) :
        (/\ requests[r].pc = "done"
         /\ requests[r].answer # ""
         /\ requests[r].store = "raised") =>
            /\ requests[r].result.kind = "answer"
            /\ requests[r].result.body = requests[r].answer

\* the timestamps of the messages appended while dispatching request r
AppendedBy(r) == {requests[r].user_message, requests[r].assistant_message} \ {0}

\* C13: a message appended while dispatching a request of one session is never in
\* the conversation context read while dispatching a request of another session.
C13_SessionContextsIsolated ==
    \A r1, r2 \in 1..Len(requests) :
        requests[r1].session # requests[r2].session =>
            \A i \in 1..Len(requests[r2].context) :
                requests[r2].context[i].timestamp \notin AppendedBy(r1)

\* C15: whenever a handler has returned a text for a request, short-term memory has
\* gained a user message holding the request text and an assistant message holding
\* the handler's response.
C15_BothMessagesRecorded ==
    \A r \in 1..Len(requests) :
        (requests[r].pc = "done" /\ requests[r].result.kind \in {"answer", "notice"}) =>
            /\ \E i \in 1..Len(appended) :
                   /\ appended[i].timestamp = requests[r].user_message
                   /\ appended[i].role = "user"
                   /\ appended[i].content = requests[r].text
            /\ \E i \in 1..Len(appended) :
                   /\ appended[i].timestamp = requests[r].assistant_message
                   /\ appended[i].role = "assistant"
                   /\ appended[i].content = requests[r].result.body

\* C19: a request with an empty text, or whose agent_type is not a registered
\* handler, is rejected by the dispatch step itself: no handler runs for it and no
\* message is written to memory.
C19_CallerMistakesRejectedFirst ==
    \A r \in 1..Len(requests) :
        (/\ requests[r].pc # "idle"
         /\ requests[r].text = "" \/ requests[r].agent_type \notin AgentNames) =>
            /\ requests[r].pc = "done"
            /\ requests[r].result.kind = "error"
            /\ requests[r].result.by = "dispatch"
            /\ AppendedBy(r) = {}

\* C22: within one request, every memory write for that request (the short-term
\* appends and the long-term store) happens only after the handler's engine has
\* returned: while the engine is running, nothing has been written for the request.
C22_WritesOnlyAfterEngine ==
    \A r \in 1..Len(requests) :
        requests[r].pc = "engine" =>
            /\ AppendedBy(r) = {}
            /\ requests[r].store = "none"

\* C23: for two concurrent requests of one session, the short-term appends of each
\* request (user message and assistant message) take place at that request's
\* completion, so the messages follow completion order: both messages of the request
\* that completes first precede both messages of the other.
C23_MessagesInCompletionOrder ==
    \A r1, r2 \in 1..Len(requests) :
        (/\ requests[r1].session = requests[r2].session
         /\ requests[r1].assistant_message # 0
         /\ requests[r2].assistant_message # 0
         /\ requests[r1].assistant_message < requests[r2].assistant_message) =>
            requests[r1].assistant_message < requests[r2].user_message

\* C25: a handler that writes to long-term memory stores a derived record only when
\* the response text is longer than 100 characters: for a response of at most 100
\* characters the handler makes no long-term write.
C25_ShortAnswersNotStored ==
    \A r \in 1..Len(requests) :
        (/\ requests[r].pc = "done"
         /\ requests[r].answer # ""
         /\ ~IsSubstantial(requests[r].answer)) =>
            requests[r].store = "skipped"

\* C30: for the math, research and general handlers, when the engine does not fail
\* and the vector store does not fail, the dispatch result is the handler's answer
\* and not an error text: the lookup before the engine and the write after it never
\* turn the request into the handler's error message.
C30_MemoryStepsKeepAnswer ==
    \A r \in 1..Len(requests) :
        (/\ requests[r].pc = "done"
         /\ requests[r].agent_type \in {"math", "research", "general"}
         /\ requests[r].raised \notin {"engine", "store"}
         /\ requests[r].result.kind # "notice") =>
            /\ requests[r].result.kind = "answer"
            /\ requests[r].result.body = requests[r].answer

\* the requests of one session, submitted and waiting to be dispatched
InitDispatchLive ==
    /\ prompt = {}
    /\ model_loaded = FALSE
    /\ profile_embeddings = NoProfileEmbeddings
    /\ state = MasterAgentState
    /\ groq_available \in BOOLEAN
    /\ decision = NoDecision
    /\ STMConstructed(MaxSize)
    /\ LTMConstructed(TRUE)
    /\ now = 1
    /\ requests = [r \in 1..MaxRequests |-> [NoRequest EXCEPT !.session = "A"]]

\* every submitted request is dispatched, and every call a handler waits for ends:
\* the OCR client, the search tools and the Groq client give up after their timeout
\* and raise
SpecDispatchLive ==
    InitDispatchLive /\ [][NextDispatch]_vars /\ WF_vars(Start) /\ WF_vars(Engine)

FallbackWords(agent_name) ==
    CASE agent_name = "math" ->
           {"giai", "phuong trinh", "toan", "tinh", "tinh toan", "x^", "="}
      [] agent_name = "research" ->
           {"nghien cuu", "tim hieu", "thong tin", "tin tuc", "news"}
      [] agent_name = "ocr" -> {"ocr", "anh", "hinh", "image", "scan"}
      [] OTHER -> {}

\* request texts analysed: each contains any of one math word, one research word and
\* one ocr word
AnalysedPrompts == SUBSET {"giai", "tin tuc", "scan"}

\* AgentType(value): the member with that value, or ValueError
AgentType(value) == IF value \in AgentNames THEN value ELSE "ValueError"

\* mutant: no except clause assigns anything: the state keeps what it had
KeywordFallbackMissing(st, p) ==
    [st EXCEPT !.pc = "route_to_agent"]

\* the except clause of analyze_prompt: simple keyword matching, confidence 0.5
KeywordFallback(st, p) ==
    LET any(agent_name) == p \cap FallbackWords(agent_name) # {}
    IN [st EXCEPT
           !.pc = "route_to_agent",
           !.agent_type = IF any("math") THEN "math"
                          ELSE IF any("research") THEN "research"
                          ELSE IF any("ocr") THEN "ocr"
                          ELSE "general",
           !.reasoning = IF any("math") THEN <<"Phat hien tu khoa toan hoc">>
                         ELSE IF any("research") THEN <<"Phat hien tu khoa nghien cuu">>
                         ELSE IF any("ocr") THEN <<"Phat hien tu khoa OCR">>
                         ELSE <<"Cau hoi tong quat">>,
           !.confidence = (5 * One) \div 10,
           !.fallback = TRUE]

\* analyze_prompt, given what route_prompt did: the try block raises when
\* route_prompt raises, when AgentType() rejects the name, and when the confidence
\* cannot be formatted with :.2f
analyze_prompt(st, routing_decision, p) ==
    LET raises == \/ routing_decision.status = "raised"
                  \/ AgentType(routing_decision.agent_type) = "ValueError"
                  \/ ~routing_decision.confidence_is_number
    IN IF raises
       THEN KeywordFallback(st, p)
       ELSE [st EXCEPT !.pc = "route_to_agent",
                       !.agent_type = AgentType(routing_decision.agent_type),
                       !.reasoning = routing_decision.reasoning,
                       !.confidence = routing_decision.confidence]

\* the node analyze_prompt; route_prompt is the one of llm_router.py
AnalyzePrompt ==
    /\ state.pc = "analyze_prompt"
    /\ \E reply \in (IF groq_available THEN LLMReplies ELSE {NoLLMReply}) :
           /\ decision' = LLMRouter_route(reply)
           /\ state' = analyze_prompt(state, LLMRouter_route(reply), prompt)
    /\ UNCHANGED <<prompt, model_loaded, groq_available, profile_embeddings>>
    /\ UNCHANGED <<stmVars, ltmVars, now, requests>>

\* route_to_agent, given the text the handler returns or the exception it lets out
route_to_agent(st, outcome) ==
    IF st.agent_type \in AgentNames
    THEN [st EXCEPT !.pc = "format_output", !.result = outcome]
    ELSE [st EXCEPT !.pc = "format_output", !.result = UnknownAgent]

\* the node route_to_agent; what the handlers do is the subject of Start and Engine
RouteToAgent ==
    /\ state.pc = "route_to_agent"
    /\ \E outcome \in {Answer(state.agent_type, "long answer"), Notice(state.agent_type),
                       HandlerError(state.agent_type), DispatchError(state.agent_type)} :
           state' = route_to_agent(state, outcome)
    /\ UNCHANGED <<prompt, model_loaded, groq_available, decision, profile_embeddings>>
    /\ UNCHANGED <<stmVars, ltmVars, now, requests>>

\* format_output prints state.agent_type.value.upper(): AttributeError on None
format_output(st) ==
    [st EXCEPT !.pc = IF st.agent_type = "None" THEN "raised" ELSE "END"]

FormatOutput ==
    /\ state.pc = "format_output"
    /\ state' = format_output(state)
    /\ UNCHANGED <<prompt, model_loaded, groq_available, decision, profile_embeddings>>
    /\ UNCHANGED <<stmVars, ltmVars, now, requests>>

InitMaster ==
    /\ prompt \in AnalysedPrompts
    /\ model_loaded = FALSE
    /\ groq_available \in BOOLEAN
    /\ decision = NoDecision
    /\ profile_embeddings = NoProfileEmbeddings
    /\ state = MasterAgentState
    /\ requests = << >>
    /\ STMConstructed(MaxSize)
    /\ LTMConstructed(TRUE)
    /\ now = 1

NextMaster == AnalyzePrompt \/ RouteToAgent \/ FormatOutput

SpecMaster == InitMaster /\ [][NextMaster]_vars

\* C28: after analyze_prompt, state.agent_type is one of the four AgentType members
\* for every router outcome; when the router raised or returned a confidence that is
\* not a number, the keyword fallback has assigned math, else research, else ocr,
\* else general, with confidence 0.5; route_to_agent finds a handler and
\* format_output does not fail on a missing agent type.
C28_AgentTypeAlwaysAssigned ==
    state.pc # "analyze_prompt" =>
        /\ state.agent_type \in AgentNames
        /\ (decision.status = "raised" \/ ~decision.confidence_is_number) =>
               /\ state.fallback
               /\ state.confidence = (5 * One) \div 10
               /\ state.agent_type = "math" <=> "giai" \in prompt
               /\ state.agent_type = "research" <=> prompt \cap {"giai", "tin tuc"} = {"tin tuc"}
               /\ state.agent_type = "ocr" <=> prompt = {"scan"}
               /\ state.agent_type = "general" <=> prompt = {}
        /\ state.pc \in {"format_output", "END"} => state.result # UnknownAgent
        /\ state.pc # "raised"

\* witness of C28: the router returned a confidence that is not a number for a text
\* holding a research word and an ocr word; the fallback chose research and the graph
\* ran to its end
C28_Witness ==
    /\ state.pc = "END"
    /\ decision.status = "returned"
    /\ ~decision.confidence_is_number
    /\ prompt = {"tin tuc", "scan"}
    /\ state.fallback
    /\ state.agent_type = "research"

(***************************************************************************)
(* Router operations                                                       *)
(***************************************************************************)

\* a new request text arrives; every request is routed once by a fresh router
Submit ==
    /\ prompt' \in Prompts
    /\ decision' = NoDecision
    /\ UNCHANGED <<model_loaded, groq_available, profile_embeddings, state>>
    /\ UNCHANGED <<stmVars, ltmVars, now, requests>>

\* SemanticRouter.__init__ followed by _compute_embeddings: with a model loaded,
\* the embedding of every agent profile is computed
SemanticRouter_init ==
    [routers |-> profile_embeddings.routers + 1,
     computed |-> IF model_loaded THEN profile_embeddings.computed + 1
                  ELSE profile_embeddings.computed]

\* route_prompt of semantic_router.py: a SemanticRouter is constructed and routes
\* the prompt
SemanticRoute ==
    /\ decision.status = "none"
    /\ profile_embeddings.routers < MaxRouters
    /\ profile_embeddings' = SemanticRouter_init
    /\ UNCHANGED state
    /\ \E reply \in (IF groq_available THEN ContextReplies ELSE {NoReply}),
          embs \in (IF model_loaded THEN [AgentNames -> EmbeddingOutcomes]
                    ELSE {[a \in AgentNames |-> NoEmbedding]}) :
           decision' = SemanticRouter_route(prompt, reply, embs)
    /\ UNCHANGED <<prompt, model_loaded, groq_available>>
    /\ UNCHANGED <<stmVars, ltmVars, now, requests>>

\* route_prompt of llm_router.py
LLMRoute ==
    /\ decision.status = "none"
    /\ \E reply \in (IF groq_available THEN LLMReplies ELSE {NoLLMReply}) :
           decision' = LLMRouter_route(reply)
    /\ UNCHANGED <<prompt, model_loaded, groq_available, profile_embeddings, state>>
    /\ UNCHANGED <<stmVars, ltmVars, now, requests>>

InitRouter ==
    /\ prompt \in Prompts
    /\ model_loaded \in BOOLEAN
    /\ groq_available \in BOOLEAN
    /\ decision = NoDecision
    /\ profile_embeddings = NoProfileEmbeddings
    /\ state = MasterAgentState
    /\ requests = << >>
    /\ STMConstructed(MaxSize)
    /\ LTMConstructed(TRUE)
    /\ now = 1

NextRouter == Submit \/ SemanticRoute \/ LLMRoute

SpecRouter == InitRouter /\ [][NextRouter]_vars

(***************************************************************************)
(* Router claims                                                           *)
(***************************************************************************)

\* C1: every RoutingDecision returned by route() (either router) has agent_type in
\* the registry and a numeric confidence in the closed interval [0,1].
C1_DecisionInRange ==
    decision.status = "returned" =>
        /\ decision.agent_type \in AgentNames
        /\ decision.confidence_is_number
        /\ 0 <= decision.confidence
        /\ decision.confidence <= One

\* C27: the embedding of each agent profile is computed exactly once, however many
\* requests route_prompt routes: once a router has been constructed with its model
\* loaded, the profile embeddings have been computed once and are not computed again.
C27_ProfileEmbeddingsComputedOnce ==
    (model_loaded /\ profile_embeddings.routers >= 1) =>
        profile_embeddings.computed = 1

\* reasonings that describe a degraded decision
DegradationReasonings ==
    {<<"GROQ khong kha dung, chon general agent">>, <<"Loi LLM routing">>,
     <<"Agent khong ton tai, chon general">>}

\* C2: route() never raises, and after any internal failure the decision it returns
\* is 'general' with a lowered confidence and a reasoning describing the degradation.
C2_NeverRaisesFallsBackToGeneral ==
    /\ decision.status # "raised"
    /\ (decision.status = "returned" /\ decision.failure # "none") =>
           /\ decision.agent_type = "general"
           /\ decision.confidence_is_number
           /\ 2 * decision.confidence <= One
           /\ decision.reasoning \in DegradationReasonings

\* the case of C3: a SemanticRouter.route call with neither embedding model nor LLM
BothUnavailableRouted ==
    /\ decision.router = "semantic"
    /\ decision.status # "none"
    /\ ~model_loaded
    /\ ~groq_available

TopScored ==
    {i \in 1..Len(decision.scores) :
         \A j \in 1..Len(decision.scores) : decision.scores[j] <= decision.scores[i]}

\* C18: SemanticRouter.route selects, among the profiles of maximal final score, the
\* one registered earliest; the selection is a function of the scores.
C18_EarliestRegisteredWinsTies ==
    (decision.router = "semantic" /\ decision.status = "returned") =>
        \E i \in TopScored :
            /\ decision.agent_type = Agents[i]
            /\ \A j \in TopScored : i <= j

\* witness of C18: a decision taken among two or more profiles of maximal score
C18_Witness ==
    /\ decision.router = "semantic"
    /\ decision.status = "returned"
    /\ Cardinality(TopScored) >= 2

====
